---- MODULE Spec2Model ----
(***************************************************************************)
(* ShaderCrashingAssert.h: the host-side ShaderCrashingAssertContext       *)
(* (Init, GetUAVCPUDescriptorHandle) and the HLSL-side                     *)
(* SHADER_CRASHING_ASSERT macro, as state machines.                        *)
(*                                                                         *)
(* Host side: Init is modelled statement by statement.  COM objects are    *)
(* records with a reference count; a pointer is an index into the table    *)
(* of its kind and NULL is 0.  An object is alive while refs > 0.          *)
(* Every D3D12 call that returns an HRESULT draws its result from          *)
(* Outcomes.                                                               *)
(*                                                                         *)
(* Shader side: invocations of SHADER_CRASHING_ASSERT(expr) run            *)
(* interleaved against the bound RWByteAddressBuffer.                      *)
(***************************************************************************)
EXTENDS Integers, Sequences, FiniteSets

VARIABLES
    pc,                 \* position inside Init, "idle" between calls
    hr,                 \* Init's local HRESULT hr
    heap,               \* Init's local ID3D12Heap* heap
    buf,                \* Init's local ID3D12Resource* buf
    m_pDescriptorHeap,  \* the context's member
    heaps,              \* every ID3D12Heap the device created
    resources,          \* every ID3D12Resource the device created
    descHeaps,          \* every ID3D12DescriptorHeap the device created
    handle,             \* results of GetUAVCPUDescriptorHandle calls so far
    log,                \* history: device/COM calls of the Init call in progress (or last)
    returns,            \* history: the value returned by each finished Init call
    entryDescHeap,      \* history: m_pDescriptorHeap when the current/last Init was entered
    dropViews,          \* fault injection: the device may fail to write a view
    mem,                \* shader side: the words of the bound buffer
    inv                 \* shader side: the invocations launched so far

hostVars == <<pc, hr, heap, buf, m_pDescriptorHeap, heaps, resources, descHeaps,
              handle, log, returns, entryDescHeap, dropViews>>
shaderVars == <<mem, inv>>
vars == <<hostVars, shaderVars>>

----------------------------------------------------------------------------
(* Bounds *)

\* Init calls made on the one context.
MaxInits == 2
\* GetUAVCPUDescriptorHandle calls recorded.
MaxGets == 1
\* Shader invocations launched.
MaxInvocations == 4

----------------------------------------------------------------------------
(* Program constants *)

\* constexpr UINT64 size = 32;
size == 32
\* sizeof(DWORD)
SizeofDWORD == 4
\* nullptr
NULL == 0
\* HRESULT values: S_OK, and two failure codes the creation calls can return.
S_OK == 0
E_OUTOFMEMORY == -2147024882
DXGI_ERROR_DEVICE_REMOVED == -2005270523
\* The value the macro stores: 0x23898f4a.
Sentinel == 596217674

Outcomes == {S_OK, E_OUTOFMEMORY, DXGI_ERROR_DEVICE_REMOVED}

\* SUCCEEDED(hr): the HRESULT is non-negative.
SUCCEEDED(h) == h >= 0

FAILED(h) == ~SUCCEEDED(h)

----------------------------------------------------------------------------
(* Objects the device creates *)

\* heapDesc of lines 65-68, named at line 73; one reference, the caller's.
NewHeap ==
    [SizeInBytes |-> size,
     Type        |-> "D3D12_HEAP_TYPE_DEFAULT",
     Flags       |-> "D3D12_HEAP_FLAG_ALLOW_ONLY_BUFFERS",
     Name        |-> "ShaderCrashingAssert Heap",
     refs        |-> 1,
     releases    |-> 0,
     init        |-> Len(returns) + 1]

\* resDesc of lines 80-88 placed in pHeap at offset 0, named at line 94.
NewBuffer(pHeap) ==
    [Dimension        |-> "D3D12_RESOURCE_DIMENSION_BUFFER",
     Width            |-> size,
     Height           |-> 1,
     DepthOrArraySize |-> 1,
     MipLevels        |-> 1,
     SampleCount      |-> 1,
     Layout           |-> "D3D12_TEXTURE_LAYOUT_ROW_MAJOR",
     Flags            |-> "D3D12_RESOURCE_FLAG_ALLOW_UNORDERED_ACCESS",
     State            |-> "D3D12_RESOURCE_STATE_COMMON",
     pHeap            |-> pHeap,
     HeapOffset       |-> 0,
     Name             |-> "ShaderCrashingAssert Buffer",
     refs             |-> 1,
     releases         |-> 0,
     init             |-> Len(returns) + 1]

NoView == [pResource |-> NULL, Format |-> "none", ViewDimension |-> "none",
           Flags |-> "none", NumElements |-> 0]

\* descHeapDesc of lines 100-102, named at line 107; its slots start unwritten.
NewDescriptorHeap ==
    [Type           |-> "D3D12_DESCRIPTOR_HEAP_TYPE_CBV_SRV_UAV",
     NumDescriptors |-> 1,
     Name           |-> "ShaderCrashingAssert Descriptor Heap",
     refs           |-> 1,
     slots          |-> [i \in 0 .. 0 |-> NoView],
     init           |-> Len(returns) + 1]

\* A uavDesc whose NumElements is the size in bytes.
UavDesc_NumElementsInBytes(pResource) ==
    [pResource     |-> pResource,
     Format        |-> "DXGI_FORMAT_R32_TYPELESS",
     ViewDimension |-> "D3D12_UAV_DIMENSION_BUFFER",
     Flags         |-> "D3D12_BUFFER_UAV_FLAG_RAW",
     NumElements   |-> size]

\* uavDesc of lines 113-117 over pResource.
UavDesc(pResource) ==
    [pResource     |-> pResource,
     Format        |-> "DXGI_FORMAT_R32_TYPELESS",
     ViewDimension |-> "D3D12_UAV_DIMENSION_BUFFER",
     Flags         |-> "D3D12_BUFFER_UAV_FLAG_RAW",
     NumElements   |-> size \div SizeofDWORD]

\* ID3D12DescriptorHeap::GetCPUDescriptorHandleForHeapStart: slot 0 of the heap.
GetCPUDescriptorHandleForHeapStart(pDescHeap) ==
    [pDescHeap |-> pDescHeap, index |-> 0]

\* A view that takes a reference on its resource.
RefsAfterView_AddRef(refs) == refs + 1

\* The reference count of a resource after a view of it is written into a
\* descriptor: a descriptor holds no reference.
RefsAfterView(refs) == refs

\* IUnknown::Release on an object record.
Release(obj) == [obj EXCEPT !.refs = @ - 1, !.releases = @ + 1]

\* What IID_PPV_ARGS(&p) holds after a creation call returned r: the new
\* object on success, NULL on failure.
OutPointer(r, new) == IF SUCCEEDED(r) THEN new ELSE NULL

\* An entry of the call history.  status is the HRESULT of a call that
\* returns one; done tells whether the device did what was asked.
Call(op, hasStatus, status, done) ==
    [op |-> op, hasStatus |-> hasStatus, status |-> status, done |-> done]

----------------------------------------------------------------------------
(* Init, lines 57-133 *)

\* An Init that releases the buffer and the heap before it sets up the descriptor.
StepAfter_ReleaseBeforeView(p) ==
    CASE p = "idle"                 -> "CreateHeap"
      [] p = "CreateHeap"           -> "CreateBuffer"
      [] p = "CreateBuffer"         -> "CreateDescriptorHeap"
      [] p = "CreateDescriptorHeap" -> "ReleaseBuffer"
      [] p = "ReleaseBuffer"        -> "ReleaseHeap"
      [] p = "ReleaseHeap"          -> "SetupDescriptor"
      [] p = "SetupDescriptor"      -> "Return"
      [] p = "Return"               -> "idle"

\* An Init that creates the descriptor heap first.
StepAfter_DescriptorHeapFirst(p) ==
    CASE p = "idle"                 -> "CreateDescriptorHeap"
      [] p = "CreateDescriptorHeap" -> "CreateHeap"
      [] p = "CreateHeap"           -> "CreateBuffer"
      [] p = "CreateBuffer"         -> "SetupDescriptor"
      [] p = "SetupDescriptor"      -> "ReleaseBuffer"
      [] p = "ReleaseBuffer"        -> "ReleaseHeap"
      [] p = "ReleaseHeap"          -> "Return"
      [] p = "Return"               -> "idle"

\* The order of Init's statements.
StepAfter(p) ==
    CASE p = "idle"                 -> "CreateHeap"
      [] p = "CreateHeap"           -> "CreateBuffer"
      [] p = "CreateBuffer"         -> "CreateDescriptorHeap"
      [] p = "CreateDescriptorHeap" -> "SetupDescriptor"
      [] p = "SetupDescriptor"      -> "ReleaseBuffer"
      [] p = "ReleaseBuffer"        -> "ReleaseHeap"
      [] p = "ReleaseHeap"          -> "Return"
      [] p = "Return"               -> "idle"

\* An Init that first releases the descriptor heap the context holds.
InitBegin_ReleasesPrevious ==
    /\ pc = "idle"
    /\ Len(returns) < MaxInits
    /\ pc' = StepAfter(pc)
    /\ hr' = S_OK
    /\ heap' = NULL
    /\ buf' = NULL
    /\ log' = <<>>
    /\ entryDescHeap' = m_pDescriptorHeap
    /\ descHeaps' = IF m_pDescriptorHeap # NULL
                    THEN [descHeaps EXCEPT ![m_pDescriptorHeap].refs = @ - 1]
                    ELSE descHeaps
    /\ UNCHANGED <<m_pDescriptorHeap, heaps, resources, handle, returns,
                   dropViews, shaderVars>>

\* Lines 57-63: entry; hr = S_OK, heap = nullptr.
InitBegin ==
    /\ pc = "idle"
    /\ Len(returns) < MaxInits
    /\ pc' = StepAfter(pc)
    /\ hr' = S_OK
    /\ heap' = NULL
    /\ buf' = NULL
    /\ log' = <<>>
    /\ entryDescHeap' = m_pDescriptorHeap
    /\ UNCHANGED <<m_pDescriptorHeap, heaps, resources, descHeaps, handle, returns,
                   dropViews, shaderVars>>

\* Lines 64-77: CreateHeap, SetName on success; then buf = nullptr.
CreateHeap ==
    /\ pc = "CreateHeap"
    /\ \E r \in Outcomes :
          /\ hr' = r
          /\ heap' = OutPointer(r, Len(heaps) + 1)
          /\ heaps' = IF SUCCEEDED(r) THEN Append(heaps, NewHeap) ELSE heaps
          /\ log' = Append(log, Call("CreateHeap", TRUE, r, SUCCEEDED(r)))
    /\ buf' = NULL
    /\ pc' = StepAfter(pc)
    /\ UNCHANGED <<m_pDescriptorHeap, resources, descHeaps, handle, returns,
                   entryDescHeap, dropViews, shaderVars>>

\* Lines 78-95: if (attempt) CreatePlacedResource(heap, 0, ...), SetName on success.
CreateBufferIf(attempt) ==
    /\ pc = "CreateBuffer"
    /\ IF attempt
       THEN \E r \in Outcomes :
               /\ hr' = r
               /\ buf' = OutPointer(r, Len(resources) + 1)
               /\ resources' = IF SUCCEEDED(r)
                               THEN Append(resources, NewBuffer(heap))
                               ELSE resources
               /\ log' = Append(log, Call("CreatePlacedResource", TRUE, r, SUCCEEDED(r)))
       ELSE UNCHANGED <<hr, buf, resources, log>>
    /\ pc' = StepAfter(pc)
    /\ UNCHANGED <<heap, m_pDescriptorHeap, heaps, descHeaps, handle, returns,
                   entryDescHeap, dropViews, shaderVars>>

\* A CreateBuffer that lacks the check of line 78.
CreateBuffer_Unguarded == CreateBufferIf(TRUE)

\* Lines 76-95, with the check of line 78.
CreateBuffer == CreateBufferIf(SUCCEEDED(hr))

\* Lines 98-108: if (SUCCEEDED(hr)) CreateDescriptorHeap(..., &m_pDescriptorHeap),
\* SetName on success.  The member is overwritten; what it held is not released.
CreateDescriptorHeap ==
    /\ pc = "CreateDescriptorHeap"
    /\ IF SUCCEEDED(hr)
       THEN \E r \in Outcomes :
               /\ hr' = r
               /\ m_pDescriptorHeap' = OutPointer(r, Len(descHeaps) + 1)
               /\ descHeaps' = IF SUCCEEDED(r)
                               THEN Append(descHeaps, NewDescriptorHeap)
                               ELSE descHeaps
               /\ log' = Append(log, Call("CreateDescriptorHeap", TRUE, r, SUCCEEDED(r)))
       ELSE UNCHANGED <<hr, m_pDescriptorHeap, descHeaps, log>>
    /\ pc' = StepAfter(pc)
    /\ UNCHANGED <<heap, buf, heaps, resources, handle, returns, entryDescHeap,
                   dropViews, shaderVars>>

\* The descriptor heaps after CreateUnorderedAccessView(pResource, NULL, desc, dest).
WriteDescriptor(dh, dest, desc) ==
    [dh EXCEPT ![dest.pDescHeap].slots[dest.index] = desc]

\* Lines 111-120: if (SUCCEEDED(hr)) CreateUnorderedAccessView(buf, NULL, &uavDesc,
\* m_pDescriptorHeap->GetCPUDescriptorHandleForHeapStart()).  The call returns
\* nothing and hr is not assigned.  With dropViews the device may leave the
\* slot unwritten.
SetupDescriptor ==
    /\ pc = "SetupDescriptor"
    /\ IF SUCCEEDED(hr)
       THEN \E done \in (IF dropViews THEN BOOLEAN ELSE {TRUE}) :
               /\ descHeaps' =
                     IF done
                     THEN WriteDescriptor(descHeaps,
                              GetCPUDescriptorHandleForHeapStart(m_pDescriptorHeap),
                              UavDesc(buf))
                     ELSE descHeaps
               /\ resources' =
                     IF done
                     THEN [resources EXCEPT ![buf].refs = RefsAfterView(@)]
                     ELSE resources
               /\ log' = Append(log, Call("CreateUnorderedAccessView", FALSE, S_OK, done))
       ELSE UNCHANGED <<descHeaps, resources, log>>
    /\ pc' = StepAfter(pc)
    /\ UNCHANGED <<hr, heap, buf, m_pDescriptorHeap, heaps, handle, returns,
                   entryDescHeap, dropViews, shaderVars>>

\* Lines 123-126: if (buf) buf->Release().
ReleaseBuffer ==
    /\ pc = "ReleaseBuffer"
    /\ IF buf # NULL
       THEN /\ resources' = [resources EXCEPT ![buf] = Release(@)]
            /\ log' = Append(log, Call("buf->Release", FALSE, S_OK, TRUE))
       ELSE UNCHANGED <<resources, log>>
    /\ pc' = StepAfter(pc)
    /\ UNCHANGED <<hr, heap, buf, m_pDescriptorHeap, heaps, descHeaps, handle,
                   returns, entryDescHeap, dropViews, shaderVars>>

\* Lines 127-130: if (release) heap->Release().
ReleaseHeapIf(release) ==
    /\ pc = "ReleaseHeap"
    /\ IF release
       THEN /\ heaps' = [heaps EXCEPT ![heap] = Release(@)]
            /\ log' = Append(log, Call("heap->Release", FALSE, S_OK, TRUE))
       ELSE UNCHANGED <<heaps, log>>
    /\ pc' = StepAfter(pc)
    /\ UNCHANGED <<hr, heap, buf, m_pDescriptorHeap, resources, descHeaps, handle,
                   returns, entryDescHeap, dropViews, shaderVars>>

\* A ReleaseHeap reached only by a successful Init, as an early return on
\* failure would make it.
ReleaseHeap_OnlyOnSuccess == ReleaseHeapIf(heap # NULL /\ SUCCEEDED(hr))

\* Lines 127-130, with the check of line 127.
ReleaseHeap == ReleaseHeapIf(heap # NULL)

\* An Init that ends with return S_OK.
ReturnValue_AlwaysOk == S_OK

\* Line 132: the value Init returns.
ReturnValue == hr

\* Line 132: return hr; the locals heap and buf go out of scope.
Return ==
    /\ pc = "Return"
    /\ returns' = Append(returns, ReturnValue)
    /\ heap' = NULL
    /\ buf' = NULL
    /\ pc' = StepAfter(pc)
    /\ UNCHANGED <<hr, m_pDescriptorHeap, heaps, resources, descHeaps, handle, log,
                   entryDescHeap, dropViews, shaderVars>>

----------------------------------------------------------------------------
(* GetUAVCPUDescriptorHandle, lines 135-138 *)

\* What a call on a context whose member is null can yield: the call
\* dereferences a null pointer, so any handle at all.
WildHandles ==
    {GetCPUDescriptorHandleForHeapStart(d) : d \in 0 .. Len(descHeaps)}

\* Line 137: what m_pDescriptorHeap->GetCPUDescriptorHandleForHeapStart() can yield.
UAVCPUDescriptorHandles ==
    IF m_pDescriptorHeap # NULL
    THEN {GetCPUDescriptorHandleForHeapStart(m_pDescriptorHeap)}
    ELSE WildHandles

\* Lines 135-138, called between Init calls.
GetUAVCPUDescriptorHandle ==
    /\ pc = "idle"
    /\ Len(handle) < MaxGets
    /\ \E h \in UAVCPUDescriptorHandles : handle' = Append(handle, h)
    /\ UNCHANGED <<pc, hr, heap, buf, m_pDescriptorHeap, heaps, resources, descHeaps,
                   log, returns, entryDescHeap, dropViews, shaderVars>>

----------------------------------------------------------------------------
(* Host specification *)

HostInit ==
    /\ pc = "idle"
    /\ hr = S_OK
    /\ heap = NULL
    /\ buf = NULL
    /\ m_pDescriptorHeap = NULL
    /\ heaps = <<>>
    /\ resources = <<>>
    /\ descHeaps = <<>>
    /\ handle = <<>>
    /\ log = <<>>
    /\ returns = <<>>
    /\ entryDescHeap = NULL

\* The bound buffer: size / 4 words, all zero.
ZeroBuffer == [w \in 0 .. (size \div SizeofDWORD) - 1 |-> 0]

ShaderIdle ==
    /\ mem = ZeroBuffer
    /\ inv = <<>>

Init ==
    /\ HostInit
    /\ dropViews = FALSE
    /\ ShaderIdle

HostNext ==
    \/ InitBegin
    \/ CreateHeap
    \/ CreateBuffer
    \/ CreateDescriptorHeap
    \/ SetupDescriptor
    \/ ReleaseBuffer
    \/ ReleaseHeap
    \/ Return
    \/ GetUAVCPUDescriptorHandle

Next == HostNext

Spec == Init /\ [][Next]_vars

\* The same program on a device that may fail to write the view.
FaultInit ==
    /\ HostInit
    /\ dropViews = TRUE
    /\ ShaderIdle

FaultSpec == FaultInit /\ [][Next]_vars

----------------------------------------------------------------------------
(* HLSL section, lines 148-159 *)

\* A store that xors the value into the word, as InterlockedXor would.
Store_Xor(m, address, value) ==
    [m EXCEPT ![address \div SizeofDWORD] = IF @ = value THEN 0 ELSE value]

\* RWByteAddressBuffer::Store(address, value): one 32-bit word written at a
\* byte address in a single memory transaction (globallycoherent, line 149).
Store(m, address, value) == [m EXCEPT ![address \div SizeofDWORD] = value]

\* A branch without the negation.
Fires_NoNegation(expr) == expr

\* [branch] if (!(expr)): whether the store is taken for a value of expr.
Fires(expr) == ~expr

\* A dispatch starts one more invocation that will run the macro.
Launch ==
    /\ Len(inv) < MaxInvocations
    /\ inv' = Append(inv, [pc |-> "if", expr |-> TRUE])
    /\ UNCHANGED <<mem, hostVars>>

\* Line 153: invocation i evaluates expr and branches.
Evaluate(i) ==
    /\ inv[i].pc = "if"
    /\ \E e \in BOOLEAN :
          inv' = [inv EXCEPT ![i] = [pc   |-> IF Fires(e) THEN "Store" ELSE "done",
                                     expr |-> e]]
    /\ UNCHANGED <<mem, hostVars>>

\* Lines 155-157: ShaderCrashingAssertResource1.Store(0, 0x23898f4a).
StoreSentinel(i) ==
    /\ inv[i].pc = "Store"
    /\ mem' = Store(mem, 0, Sentinel)
    /\ inv' = [inv EXCEPT ![i].pc = "done"]
    /\ UNCHANGED hostVars

ShaderNext ==
    \/ Launch
    \/ \E i \in 1 .. Len(inv) : Evaluate(i)
    \/ \E i \in 1 .. Len(inv) : StoreSentinel(i)

ShaderSpec == Init /\ [][ShaderNext]_vars

----------------------------------------------------------------------------
(* Properties of Init *)

\* Init is not running and has returned at least once; log is then the
\* call history of the call that returned last.
Returned == pc = "idle" /\ Len(returns) > 0

LastReturn == returns[Len(returns)]

StatusOps == {"CreateHeap", "CreatePlacedResource", "CreateDescriptorHeap"}

CreateOps == StatusOps \cup {"CreateUnorderedAccessView"}

ReleaseOps == {"buf->Release", "heap->Release"}

\* The positions of the history at which a status-returning creation failed.
FailedAt == {i \in 1 .. Len(log) : log[i].op \in StatusOps /\ FAILED(log[i].status)}

IsCreate(e) == e.op \in CreateOps

\* The creation calls of the history, in order.
CreateCalls == SelectSeq(log, IsCreate)

OpsOf(l) == [i \in 1 .. Len(l) |-> l[i].op]

\* The view in slot 0 of the context's descriptor heap.
OwnedView == descHeaps[m_pDescriptorHeap].slots[0]

\* C1: Init is fail-fast.  After a status-returning creation call fails, no
\* creation call (CreateUnorderedAccessView included) follows in the same
\* Init, and Init returns exactly that call's failure code; when CreateHeap
\* fails, CreatePlacedResource and CreateDescriptorHeap are never called.
C1_FailFast ==
    /\ \A i \in FailedAt : \A j \in (i + 1) .. Len(log) : log[j].op \notin CreateOps
    /\ Returned => \A i \in FailedAt : LastReturn = log[i].status
    /\ (Len(log) >= 1 /\ log[1].op = "CreateHeap" /\ FAILED(log[1].status))
          => \A j \in 1 .. Len(log) :
                log[j].op \notin {"CreatePlacedResource", "CreateDescriptorHeap",
                                  "CreateUnorderedAccessView"}

\* Init returned DXGI_ERROR_DEVICE_REMOVED from CreatePlacedResource after a
\* successful CreateHeap, and called nothing but heap->Release afterwards.
C1_Witness ==
    /\ Returned
    /\ OpsOf(log) = <<"CreateHeap", "CreatePlacedResource", "heap->Release">>
    /\ log[2].status = DXGI_ERROR_DEVICE_REMOVED
    /\ LastReturn = DXGI_ERROR_DEVICE_REMOVED

\* C2: on every exit path each heap and buffer that was created is released
\* exactly once before Init returns, nothing is released that was not
\* created, and when Init has returned it holds no reference to either.
C2_TransientsReleasedOnce ==
    /\ \A h \in 1 .. Len(heaps) :
          /\ heaps[h].releases \in {0, 1}
          /\ heaps[h].refs = 1 - heaps[h].releases
          /\ pc = "idle" => heaps[h].releases = 1
    /\ \A r \in 1 .. Len(resources) :
          /\ resources[r].releases \in {0, 1}
          /\ resources[r].refs = 1 - resources[r].releases
          /\ pc = "idle" => resources[r].releases = 1
    /\ \A i \in 1 .. Len(log) :
          /\ log[i].op = "buf->Release" =>
                \E j \in 1 .. (i - 1) :
                   log[j].op = "CreatePlacedResource" /\ SUCCEEDED(log[j].status)
          /\ log[i].op = "heap->Release" =>
                \E j \in 1 .. (i - 1) :
                   log[j].op = "CreateHeap" /\ SUCCEEDED(log[j].status)
    /\ pc = "idle" => heap = NULL /\ buf = NULL

\* A failed Init has returned: its heap was created and released once and
\* its buffer was never created.
C2_Witness ==
    /\ Returned
    /\ Len(returns) = 1
    /\ FAILED(LastReturn)
    /\ Len(heaps) = 1
    /\ heaps[1].releases = 1
    /\ heaps[1].refs = 0
    /\ Len(resources) = 0
    /\ OpsOf(log) = <<"CreateHeap", "CreatePlacedResource", "heap->Release">>

\* C3 as stated: whenever a creation step failed, Init returns a failure
\* status and the context then holds no live descriptor heap, whatever the
\* context held before the call.
C3_NoHandleAfterFailure ==
    (Returned /\ FailedAt # {}) =>
        /\ FAILED(LastReturn)
        /\ \/ m_pDescriptorHeap = NULL
           \/ descHeaps[m_pDescriptorHeap].refs = 0

\* C3, amended: whenever a creation step failed in an Init entered with a
\* null m_pDescriptorHeap, Init returns a failure status and
\* m_pDescriptorHeap is null afterwards.
C3_NoHandleAfterFailureOnFreshContext ==
    (Returned /\ FailedAt # {} /\ entryDescHeap = NULL) =>
        /\ FAILED(LastReturn)
        /\ m_pDescriptorHeap = NULL

\* Init entered with a null member failed at CreateDescriptorHeap.
C3_Witness ==
    /\ Returned
    /\ entryDescHeap = NULL
    /\ Len(log) >= 3
    /\ log[3].op = "CreateDescriptorHeap"
    /\ FAILED(log[3].status)
    /\ m_pDescriptorHeap = NULL

\* C4: Init returns success exactly when the three status-returning steps
\* all succeeded; then the four creation calls ran in order, the context
\* owns a descriptor heap with exactly one slot, GetUAVCPUDescriptorHandle
\* yields the handle of that slot, and the slot holds a raw view of 8
\* four-byte elements over a 32-byte buffer that allows unordered access.
C4_SuccessPostcondition ==
    Returned =>
        /\ SUCCEEDED(LastReturn) <=>
              \A op \in StatusOps :
                 \E i \in 1 .. Len(log) : log[i].op = op /\ SUCCEEDED(log[i].status)
        /\ SUCCEEDED(LastReturn) =>
              /\ OpsOf(CreateCalls) = <<"CreateHeap", "CreatePlacedResource",
                                        "CreateDescriptorHeap", "CreateUnorderedAccessView">>
              /\ m_pDescriptorHeap \in 1 .. Len(descHeaps)
              /\ descHeaps[m_pDescriptorHeap].NumDescriptors = 1
              /\ DOMAIN descHeaps[m_pDescriptorHeap].slots = {0}
              /\ UAVCPUDescriptorHandles = {[pDescHeap |-> m_pDescriptorHeap, index |-> 0]}
              /\ \A h \in UAVCPUDescriptorHandles :
                    LET v == descHeaps[h.pDescHeap].slots[h.index] IN
                    /\ v.Format = "DXGI_FORMAT_R32_TYPELESS"
                    /\ v.ViewDimension = "D3D12_UAV_DIMENSION_BUFFER"
                    /\ v.Flags = "D3D12_BUFFER_UAV_FLAG_RAW"
                    /\ v.NumElements = 8
                    /\ v.pResource \in 1 .. Len(resources)
                    /\ resources[v.pResource].Dimension = "D3D12_RESOURCE_DIMENSION_BUFFER"
                    /\ resources[v.pResource].Width = 32
                    /\ resources[v.pResource].Flags =
                          "D3D12_RESOURCE_FLAG_ALLOW_UNORDERED_ACCESS"

\* GetUAVCPUDescriptorHandle was called after a successful Init and returned
\* the handle of the slot that holds the view.
C4_Witness ==
    /\ Returned
    /\ LastReturn = S_OK
    /\ Len(handle) = 1
    /\ handle[1] = [pDescHeap |-> m_pDescriptorHeap, index |-> 0]
    /\ OwnedView.NumElements = 8

C8_SecondInitLeaks ==
    (Returned /\ entryDescHeap # NULL) =>
        /\ descHeaps[entryDescHeap].refs > 0
        /\ m_pDescriptorHeap # entryDescHeap

\* C8, amended: after an Init that got as far as calling
\* CreateDescriptorHeap on a context that already held a descriptor heap,
\* that descriptor heap still has its reference outstanding and the context
\* no longer points to it; an Init that failed before that call leaves the
\* member pointing to it.
C8_SecondInitLeaksOnceOverwritten ==
    (Returned /\ entryDescHeap # NULL) =>
        /\ descHeaps[entryDescHeap].refs > 0
        /\ IF \E i \in 1 .. Len(log) : log[i].op = "CreateDescriptorHeap"
           THEN m_pDescriptorHeap # entryDescHeap
           ELSE m_pDescriptorHeap = entryDescHeap

\* A second successful Init has returned: the first descriptor heap is
\* still referenced and the member points to the second.
C8_Witness ==
    /\ Returned
    /\ Len(returns) = 2
    /\ LastReturn = S_OK
    /\ entryDescHeap = 1
    /\ m_pDescriptorHeap = 2
    /\ descHeaps[1].refs = 1

C10_OrderingInsideInit ==
    /\ (pc = "CreateBuffer" /\ SUCCEEDED(hr)) =>
          /\ heap \in 1 .. Len(heaps)
          /\ heaps[heap].refs > 0
    /\ (pc = "SetupDescriptor" /\ SUCCEEDED(hr)) =>
          /\ buf \in 1 .. Len(resources)
          /\ resources[buf].refs > 0
          /\ heap \in 1 .. Len(heaps)
          /\ heaps[heap].refs > 0
          /\ resources[buf].pHeap = heap
          /\ m_pDescriptorHeap \in 1 .. Len(descHeaps)
          /\ descHeaps[m_pDescriptorHeap].refs > 0
    /\ \A i \in 1 .. Len(log) : \A j \in 1 .. Len(log) :
          /\ (log[i].op \in ReleaseOps /\ log[j].op \in CreateOps) => j < i
          /\ (log[i].op = "buf->Release" /\ log[j].op = "heap->Release") => i < j
    /\ (\E i \in 1 .. Len(log) : log[i].op \in ReleaseOps) =>
          pc \in {"ReleaseHeap", "Return", "idle"}

\* A second Init ran all four creation calls and then released the buffer
\* and the heap, in that order.
C10_Witness ==
    /\ Len(returns) = 1
    /\ pc = "Return"
    /\ OpsOf(log) = <<"CreateHeap", "CreatePlacedResource", "CreateDescriptorHeap",
                      "CreateUnorderedAccessView", "buf->Release", "heap->Release">>

----------------------------------------------------------------------------
(* Properties of SHADER_CRASHING_ASSERT *)

\* Every invocation launched so far has finished the macro.
AllDone == \A i \in 1 .. Len(inv) : inv[i].pc = "done"

\* The invocations that have completed the store.
Stored == {i \in 1 .. Len(inv) : inv[i].pc = "done" /\ ~inv[i].expr}

\* C5: starting from an all-zero buffer, once every launched invocation has
\* completed, the first word is 0x23898f4a if at least one invocation
\* evaluated expr false, and the whole buffer is still zero if all
\* evaluated it true.
C5_SentinelIffSomeFalse ==
    AllDone =>
        IF \E i \in 1 .. Len(inv) : ~inv[i].expr
        THEN mem[0] = 596217674
        ELSE \A w \in DOMAIN mem : mem[w] = 0

\* Three invocations have completed, one with expr false and two with
\* expr true, and the first word is the sentinel.
C5_Witness ==
    /\ AllDone
    /\ Len(inv) >= 3
    /\ Cardinality({i \in 1 .. Len(inv) : ~inv[i].expr}) = 1
    /\ mem[0] = Sentinel

\* C6: in every state the first word is zero or exactly the sentinel, and
\* after any number N >= 1 of completed stores the buffer is what a single
\* store to a zero buffer leaves.
C6_StoresIdempotent ==
    /\ mem[0] \in {0, 596217674}
    /\ Stored # {} => mem = [ZeroBuffer EXCEPT ![0] = 596217674]
    /\ Stored = {} => mem = ZeroBuffer

\* Two failing invocations have both stored, a third is about to.
C6_Witness ==
    /\ Cardinality(Stored) = 2
    /\ \E i \in 1 .. Len(inv) : inv[i].pc = "Store"
    /\ mem[0] = Sentinel

====
